---- MODULE Spec2Model ----
(***************************************************************************)
(* The MCP mock server (src/unnamed/part_000): a JSON-RPC dispatcher over  *)
(* HTTP.  A POST body is accumulated chunk by chunk, parsed with           *)
(* JSON.parse, dispatched on `method`, and answered with one JSON-RPC      *)
(* envelope; requests and responses are appended to two log files.         *)
(*                                                                         *)
(* JSON texts are modelled as trees up to insignificant whitespace and     *)
(* member order; bodies are ASCII, so that a chunk's string length is its  *)
(* byte length.  JavaScript values are trees of the same shape:            *)
(*   [t |-> "undef"], [t |-> "null"], [t |-> "bool", b |-> ...],           *)
(*   [t |-> "str", s |-> ...], [t |-> "arr", a |-> <<...>>],               *)
(*   [t |-> "obj", f |-> [key |-> value]], [t |-> "inf", sg] (Infinity and *)
(*   -Infinity), [t |-> "num", sg, hi, lo, e]: the integer                 *)
(*   sg*(hi*10^8 + lo)*10^e, and [t |-> "nest", n, v]: the value v inside  *)
(*   n arrays of one element each, [[...[v]...]], the form of deep         *)
(*   nestings.                                                             *)
(***************************************************************************)
EXTENDS Integers, Sequences, FiniteSets, TLC

\* ------------------------------------------------------------ JS values

Undef == [t |-> "undef"]
JNull == [t |-> "null"]
JInf == [t |-> "inf", sg |-> 1]
JNegInf == [t |-> "inf", sg |-> -1]
JBool(b) == [t |-> "bool", b |-> b]
JStr(s) == [t |-> "str", s |-> s]
JArr(a) == [t |-> "arr", a |-> a]
JObj(f) == [t |-> "obj", f |-> f]
NoFields == [k \in {} |-> Undef]
JNum(sg, hi, lo, e) == [t |-> "num", sg |-> sg, hi |-> hi, lo |-> lo, e |-> e]
JNest(n, v) == [t |-> "nest", n |-> n, v |-> v]
JInt(n) == JNum(IF n < 0 THEN -1 ELSE 1, 0, IF n < 0 THEN -n ELSE n, 0)

\* hi*Limb + lo is the magnitude of an integer literal.
Limb == 100000000
\* 2^53 = 90071992 * 10^8 + 54740992: up to it every integer is a double.
Two53Hi == 90071992
Two53Lo == 54740992
\* 1.7976931348623157e308 is the largest double, and a literal from
\* 1.797693134862315808e308 on is read as Infinity: one with a decimal
\* exponent above MaxDoubleExp, or with that exponent and first sixteen
\* digits above MaxDoubleHi*10^8 + MaxDoubleLo.
MaxDoubleExp == 308
MaxDoubleHi == 17976931
MaxDoubleLo == 34862315

\* The recursions of the engine run on the call stack, one frame per
\* nesting level, and throw a RangeError (Maximum call stack size exceeded)
\* when it is full; JSON.parse does not recurse.  How many levels the stack
\* holds at a call depends on the build and on the frames already in use.
\* With the default stack, String(v) always holds MinStringDepth nested
\* arrays and never more than MaxStringDepth, and JSON.stringify always
\* holds MinStringifyDepth nested arrays and objects and never more than
\* MaxStringifyDepth; between the two the run decides.
MinStringDepth == 3000
MaxStringDepth == 3400
MinStringifyDepth == 4050
MaxStringifyDepth == 4250

\* A field of an object literal; a literal lists only the fields it has.
Absent == [t |-> "absent"]
Field(k, v) == IF v = Absent THEN NoFields ELSE k :> v

\* v.k for a value v other than null and undefined (those throw a TypeError).
\* None of the keys the server reads is a property of String, Number,
\* Boolean, Array or Object.prototype.
Get(v, k) == IF v.t = "obj" /\ k \in DOMAIN v.f THEN v.f[k] ELSE Undef

\* v?.k
OptGet(v, k) == IF v.t \in {"undef", "null"} THEN Undef ELSE Get(v, k)

\* ToBoolean(v)
Truthy(v) ==
  CASE v.t \in {"undef", "null"} -> FALSE
    [] v.t = "bool" -> v.b
    [] v.t = "num" -> ~(v.hi = 0 /\ v.lo = 0)
    [] v.t = "str" -> v.s # ""
    [] OTHER -> TRUE

\* Whether the recursion of JSON.stringify on v needs more than room
\* levels: every array and every object takes one.
RECURSIVE TooDeep(_, _)
TooDeep(v, room) ==
  CASE v.t = "arr" -> room < 1 \/ \E i \in DOMAIN v.a : TooDeep(v.a[i], room - 1)
    [] v.t = "obj" -> room < 1 \/ \E k \in DOMAIN v.f : TooDeep(v.f[k], room - 1)
    [] v.t = "nest" -> room < v.n \/ TooDeep(v.v, room - v.n)
    [] OTHER -> FALSE

\* Whether the recursion of String on v needs more than room levels: every
\* array takes one, and an object is written without a look inside.
RECURSIVE ArrTooDeep(_, _)
ArrTooDeep(v, room) ==
  CASE v.t = "arr" -> room < 1 \/ \E i \in DOMAIN v.a : ArrTooDeep(v.a[i], room - 1)
    [] v.t = "nest" -> room < v.n \/ ArrTooDeep(v.v, room - v.n)
    [] OTHER -> FALSE

\* a || b
Or(a, b) == IF Truthy(a) THEN a ELSE b

\* a ?? b
Nullish(a, b) == IF a.t \in {"undef", "null"} THEN b ELSE a

\* ------------------------------------------------- numbers and strings

Digit(d) == CASE d = 0 -> "0" [] d = 1 -> "1" [] d = 2 -> "2" [] d = 3 -> "3"
              [] d = 4 -> "4" [] d = 5 -> "5" [] d = 6 -> "6" [] d = 7 -> "7"
              [] d = 8 -> "8" [] d = 9 -> "9"

RECURSIVE Digits(_)
Digits(n) == IF n < 10 THEN Digit(n) ELSE Digits(n \div 10) \o Digit(n % 10)

RECURSIVE Pad(_, _)
Pad(s, w) == IF Len(s) >= w THEN s ELSE Pad("0" \o s, w)

\* The digits of the mantissa hi*10^8 + lo.
MantStr(v) ==
  IF v.hi = 0 THEN Digits(v.lo) ELSE Digits(v.hi) \o Pad(Digits(v.lo), 8)

RECURSIVE Zeros(_)
Zeros(n) == IF n = 0 THEN "" ELSE "0" \o Zeros(n - 1)

\* Number.prototype.toString of an integer-valued double: its shortest
\* digits, followed by its zeros below 10^21 and by e+<exponent> from
\* there on; -0 is written 0.
NumStr(v) ==
  (IF v.sg < 0 /\ ~(v.hi = 0 /\ v.lo = 0) THEN "-" ELSE "")
    \o (LET d == MantStr(v)
        IN IF v.e = 0 THEN d
           ELSE IF Len(d) + v.e <= 21 THEN d \o Zeros(v.e)
           ELSE SubSeq(d, 1, 1)
                  \o (IF Len(d) > 1 THEN "." \o SubSeq(d, 2, Len(d)) ELSE "")
                  \o "e+" \o Digits(Len(d) + v.e - 1))

\* The mantissa times 10 and the mantissa (a multiple of 10) over 10, the
\* value kept.
Times10(v) ==
  [v EXCEPT !.hi = v.hi * 10 + (v.lo * 10) \div Limb, !.lo = (v.lo * 10) % Limb,
            !.e = v.e - 1]
Over10(v) ==
  [v EXCEPT !.hi = v.hi \div 10, !.lo = (v.hi % 10) * (Limb \div 10) + v.lo \div 10,
            !.e = v.e + 1]

\* The exponent taken into the mantissa while that stays below 10^16.
RECURSIVE Expand(_)
Expand(v) == IF v.e > 0 /\ v.hi < Limb \div 10 THEN Expand(Times10(v)) ELSE v

\* The trailing zeros of a non-zero mantissa given to the exponent.
RECURSIVE Strip(_)
Strip(v) == IF v.lo % 10 = 0 THEN Strip(Over10(v)) ELSE v

\* The double nearest to an integer below 10^16 (ties to even).
RoundInt(v) ==
  IF v.hi < Two53Hi \/ (v.hi = Two53Hi /\ v.lo <= Two53Lo) THEN JNum(v.sg, v.hi, v.lo, 0)
  ELSE IF v.lo % 2 = 0 THEN JNum(v.sg, v.hi, v.lo, 0)
  ELSE IF v.lo % 4 = 1 THEN JNum(v.sg, v.hi, v.lo - 1, 0)
  ELSE IF v.lo + 1 = Limb THEN JNum(v.sg, v.hi + 1, 0, 0)
  ELSE JNum(v.sg, v.hi, v.lo + 1, 0)

\* The double the integer literal sg*(hi*10^8 + lo)*10^e is read as, in one
\* form per double: below 10^16 the integer itself with e = 0, rounded to the
\* nearest double; from 10^16 on the shortest digits and the exponent, or an
\* infinity of the literal's sign.  Literals have a mantissa below 10^16
\* (hi < Limb), and one whose value is 10^16 or more has at most 15
\* significant digits, so that its own digits are the shortest of its double.
ToDouble(v) ==
  IF v.hi = 0 /\ v.lo = 0 THEN JNum(v.sg, 0, 0, 0)
  ELSE LET x == Expand(v)
       IN IF x.e = 0
            THEN (IF RoundInt(x).hi < Limb THEN RoundInt(x) ELSE Strip(RoundInt(x)))
          ELSE IF \/ x.e + 15 > MaxDoubleExp
                  \/ /\ x.e + 15 = MaxDoubleExp
                     /\ \/ x.hi > MaxDoubleHi
                        \/ x.hi = MaxDoubleHi /\ x.lo > MaxDoubleLo
            THEN (IF v.sg < 0 THEN JNegInf ELSE JInf)
          ELSE Strip(x)

\* Whether String(v) throws a TypeError: an object parsed from JSON that
\* has its own "toString" member hides Object.prototype.toString with a
\* value that is not callable, and valueOf then yields no primitive.
RECURSIVE NoStringForm(_)
NoStringForm(v) ==
  CASE v.t = "obj" -> "toString" \in DOMAIN v.f
    [] v.t = "arr" -> \E i \in DOMAIN v.a : NoStringForm(v.a[i])
    [] v.t = "nest" -> NoStringForm(v.v)
    [] OTHER -> FALSE

\* Whether String(v) throws where the stack holds room nested arrays: the
\* TypeError above, or the RangeError of arrays nested deeper than room.
StrThrows(v, room) == ArrTooDeep(v, room) \/ NoStringForm(v)

\* String(v), as the template literal `${v}` computes it.
RECURSIVE ToStr(_)
RECURSIVE Join(_, _)
Join(a, i) ==
  IF i > Len(a) THEN ""
  ELSE (IF i > 1 THEN "," ELSE "")
         \o (IF a[i].t \in {"undef", "null"} THEN "" ELSE ToStr(a[i]))
         \o Join(a, i + 1)
ToStr(v) ==
  CASE v.t = "str" -> v.s
    [] v.t = "num" -> NumStr(v)
    [] v.t = "inf" -> (IF v.sg < 0 THEN "-Infinity" ELSE "Infinity")
    [] v.t = "bool" -> (IF v.b THEN "true" ELSE "false")
    [] v.t = "null" -> "null"
    [] v.t = "undef" -> "undefined"
    [] v.t = "arr" -> Join(v.a, 1)
    [] v.t = "nest" -> (IF v.v.t \in {"undef", "null"} THEN "" ELSE ToStr(v.v))
    [] v.t = "obj" -> "[object Object]"

\* ------------------------------------------------------------- JSON

\* A text that is no JSON text.
Invalid(s) == [t |-> "invalid", s |-> s]

\* JSON.parse(text) throws a SyntaxError.
ParseThrows(text) == text.t = "invalid"

\* JSON.parse(text), for a text that parses.
RECURSIVE JSONparse(_)
JSONparse(text) ==
  CASE text.t = "num" -> ToDouble(text)
    [] text.t = "arr" -> JArr([i \in DOMAIN text.a |-> JSONparse(text.a[i])])
    [] text.t = "nest" -> JNest(text.n, JSONparse(text.v))
    [] text.t = "obj" -> JObj([k \in DOMAIN text.f |-> JSONparse(text.f[k])])
    [] OTHER -> text

\* What a call that threw a RangeError leaves in place of a text.
RangeError == [t |-> "thrown", e |-> "RangeError"]

\* The text of v: members whose value is undefined are left out, an
\* undefined array element and a non-finite number are written as null,
\* and -0 is written 0.
RECURSIVE JSONtext(_)
JSONtext(v) ==
  CASE v.t = "inf" -> JNull
    [] v.t = "num" -> (IF v.hi = 0 /\ v.lo = 0 THEN JNum(1, 0, 0, 0) ELSE v)
    [] v.t = "undef" -> JNull
    [] v.t = "arr" -> JArr([i \in DOMAIN v.a |-> JSONtext(v.a[i])])
    [] v.t = "nest" -> JNest(v.n, JSONtext(v.v))
    [] v.t = "obj" ->
         JObj([k \in {x \in DOMAIN v.f : v.f[x].t # "undef"} |-> JSONtext(v.f[k])])
    [] OTHER -> v

\* JSON.stringify(v) where the stack holds room nested levels: the text of
\* v, or a RangeError when v is nested deeper.
JSONstringify(v, room) ==
  IF TooDeep(v, room) THEN RangeError ELSE JSONtext(v)

\* What the stack holds at the three calls of the end handler that recurse
\* on a request's value: log, JSON.stringify of the request log line; send,
\* JSON.stringify of the envelope, two calls deeper; str, String(name) in
\* the template literal.
Stacks ==
  {st \in [log : {MinStringifyDepth, MaxStringifyDepth},
           send : {MinStringifyDepth, MaxStringifyDepth},
           str : {MinStringDepth, MaxStringDepth}] : st.send <= st.log}

\* ------------------------------------------------------------ the server

\* const tools
tools ==
  JArr(<<JObj([name |-> JStr("echo"),
               description |-> JStr("Echoes the provided input back as result"),
               parameters |->
                 JObj([type |-> JStr("object"),
                       properties |-> JObj([message |-> JObj([type |-> JStr("string")])]),
                       required |-> JArr(<<JStr("message")>>)])])>>)

\* The size above which a body's socket is destroyed: 1e6.
MaxBody == 1000000

\* room: the levels the stack holds at the call of JSON.stringify.
makeJsonRpcResult(id, result, room) ==
  JSONstringify(JObj([jsonrpc |-> JStr("2.0"), result |-> result, id |-> id]), room)

makeJsonRpcError(id, code, message, room) ==
  JSONstringify(JObj([jsonrpc |-> JStr("2.0"),
                      error |-> JObj([code |-> JInt(code), message |-> JStr(message)]),
                      id |-> id]), room)

\* What a handler leaves behind: whether it threw, the lines it appended to
\* the response log, and the responses it wrote (status, body).
Wrote(status, body, logOk) ==
  [threw |-> FALSE,
   respLine |-> IF logOk THEN <<body>> ELSE <<>>,
   out |-> <<[status |-> status, body |-> body]>>]

Thrown == [threw |-> TRUE, respLine |-> <<>>, out |-> <<>>]

\* The rest of sendResult and sendError after the body is made in their
\* first line, outside the try: a RangeError of JSON.stringify leaves them.
Send(status, body, logOk) ==
  IF body = RangeError THEN Thrown ELSE Wrote(status, body, logOk)

\* sendResult without its try/catch: a failed append leaves the handler.
sendResult_NoCatch(id, resultObj, logOk, stack) ==
  IF logOk THEN Send(200, makeJsonRpcResult(id, resultObj, stack.send), logOk) ELSE Thrown

\* sendResult(res, id, resultObj); logOk: the append to the response log
\* does not throw; stack: what the stack holds.
sendResult(id, resultObj, logOk, stack) ==
  Send(200, makeJsonRpcResult(id, resultObj, stack.send), logOk)

\* sendError that leaves the status at 200.
sendError_Status200(id, code, message, statusCode, logOk, stack) ==
  Send(200, makeJsonRpcError(id, code, message, stack.send), logOk)

\* sendError(res, id, code, message, statusCode)
sendError(id, code, message, statusCode, logOk, stack) ==
  Send(statusCode, makeJsonRpcError(id, code, message, stack.send), logOk)

\* const params = parsed.params || {}
toolParams(parsed) == Or(Get(parsed, "params"), JObj(NoFields))

\* const name = params.name || params.tool?.name || null
toolName(params) ==
  Or(Or(Get(params, "name"), OptGet(Get(params, "tool"), "name")), JNull)

\* const args = params.arguments || params.tool?.arguments || {}
toolArgs(params) ==
  Or(Or(Get(params, "arguments"), OptGet(Get(params, "tool"), "arguments")),
     JObj(NoFields))

\* The echo tool: const message = args.message || ''
echo(id, args, logOk, stack) ==
  sendResult(id, JObj([type |-> JStr("tool_result"),
                       value |-> JObj([output |-> Or(Get(args, "message"), JStr(""))])]),
             logOk, stack)

\* The unknown tool: the template literal is evaluated before sendError is
\* called, and a name that has no string form throws there.
toolNotFound(id, name, logOk, stack) ==
  IF StrThrows(name, stack.str) THEN Thrown
  ELSE sendError(id, -32000, "Tool not found: " \o ToStr(name), 404, logOk, stack)

\* The tools/call branch.
callTool(parsed, id, logOk, stack) ==
  LET name == toolName(toolParams(parsed))
      args == toolArgs(toolParams(parsed))
  IN IF ~Truthy(name) THEN sendError(id, -32602, "Missing tool name", 400, logOk, stack)
     ELSE IF name = JStr("echo") THEN echo(id, args, logOk, stack)
     ELSE toolNotFound(id, name, logOk, stack)

initializeResult ==
  JObj([protocolVersion |-> JStr("2025-11-25"),
        capabilities |-> JObj([supportsToolCalls |-> JBool(TRUE),
                               supportsStreams |-> JBool(FALSE)]),
        serverInfo |-> JObj([name |-> JStr("librechat-mcp-mock"),
                             version |-> JStr("0.1.0")])])

\* const acceptedNoopMethods
acceptedNoopMethods == {JStr("serverInfo"), JStr("getMetadata"), JStr("status"), JStr("ping")}

\* The chain of method branches of the end handler: the branch taken and
\* what it did.
Branch(name, r) == [branch |-> name] @@ r

\* The chain with the alias init forgotten.
dispatch_NoInitAlias(parsed, method, id, logOk, stack) ==
  IF method = JStr("listTools") \/ method = JStr("tools/list")
    THEN Branch("listTools", sendResult(id, JObj([tools |-> tools]), logOk, stack))
  ELSE IF method = JStr("listResources") \/ method = JStr("resources/list")
    THEN Branch("listResources", sendResult(id, JObj([resources |-> JArr(<<>>)]), logOk, stack))
  ELSE IF method = JStr("listPrompts") \/ method = JStr("prompts/list")
    THEN Branch("listPrompts", sendResult(id, JObj([prompts |-> JArr(<<>>)]), logOk, stack))
  ELSE IF method = JStr("tools/call") \/ method = JStr("callTool")
    THEN Branch("callTool", callTool(parsed, id, logOk, stack))
  ELSE IF method = JStr("ping")
    THEN Branch("ping", sendResult(id, JObj(NoFields), logOk, stack))
  ELSE IF method = JStr("initialize") \/ method = JStr("handshake")
    THEN Branch("initialize", sendResult(id, initializeResult, logOk, stack))
  ELSE IF method \in acceptedNoopMethods
    THEN Branch("noop", sendResult(id, JObj(NoFields), logOk, stack))
  ELSE Branch("notFound", sendError(id, -32601, "Method not found", 404, logOk, stack))

\* The chain of method branches, first match first.
dispatch(parsed, method, id, logOk, stack) ==
  IF method = JStr("listTools") \/ method = JStr("tools/list")
    THEN Branch("listTools", sendResult(id, JObj([tools |-> tools]), logOk, stack))
  ELSE IF method = JStr("listResources") \/ method = JStr("resources/list")
    THEN Branch("listResources", sendResult(id, JObj([resources |-> JArr(<<>>)]), logOk, stack))
  ELSE IF method = JStr("listPrompts") \/ method = JStr("prompts/list")
    THEN Branch("listPrompts", sendResult(id, JObj([prompts |-> JArr(<<>>)]), logOk, stack))
  ELSE IF method = JStr("tools/call") \/ method = JStr("callTool")
    THEN Branch("callTool", callTool(parsed, id, logOk, stack))
  ELSE IF method = JStr("ping")
    THEN Branch("ping", sendResult(id, JObj(NoFields), logOk, stack))
  ELSE IF method = JStr("initialize") \/ method = JStr("init") \/ method = JStr("handshake")
    THEN Branch("initialize", sendResult(id, initializeResult, logOk, stack))
  ELSE IF method \in acceptedNoopMethods
    THEN Branch("noop", sendResult(id, JObj(NoFields), logOk, stack))
  ELSE Branch("notFound", sendError(id, -32601, "Method not found", 404, logOk, stack))

\* The catch block answering -32600 (invalid request) for a parse error.
parseError_WrongCode ==
  [branch |-> "parseError", threw |-> FALSE, reqLine |-> <<>>, respLine |-> <<>>,
   out |-> <<[status |-> 400, body |-> makeJsonRpcError(JNull, -32600, "Parse error", MinStringifyDepth)]>>]

\* The catch block of JSON.parse: the reply is written without sendError,
\* so nothing is logged.
parseError ==
  [branch |-> "parseError", threw |-> FALSE, reqLine |-> <<>>, respLine |-> <<>>,
   out |-> <<[status |-> 400, body |-> makeJsonRpcError(JNull, -32700, "Parse error", MinStringifyDepth)]>>]

\* The line appended to the request log.
logLine(parsed, method, id, room) ==
  JSONstringify(JObj([method |-> method, id |-> id, params |-> Get(parsed, "params")]),
                room)

\* The 'end' handler on the accumulated body; reqLogOk and respLogOk: the
\* appends to the request log and to the response log do not throw; stack:
\* what the stack holds.  The log line is made outside the try of the
\* append: a RangeError of its JSON.stringify leaves the handler.
onEnd(text, reqLogOk, respLogOk, stack) ==
  IF ParseThrows(text) THEN parseError
  ELSE LET parsed == JSONparse(text)
       IN IF parsed.t = "null"
            THEN [branch |-> "none", reqLine |-> <<>>] @@ Thrown
          ELSE LET method == Get(parsed, "method")
                   id == Nullish(Get(parsed, "id"), JNull)
               IN IF logLine(parsed, method, id, stack.log) = RangeError
                    THEN [branch |-> "none", reqLine |-> <<>>] @@ Thrown
                  ELSE [reqLine |-> IF reqLogOk
                                      THEN <<logLine(parsed, method, id, stack.log)>>
                                    ELSE <<>>]
                         @@ dispatch(parsed, method, id, respLogOk, stack)

\* ------------------------------------------------------- the state machine

VARIABLES
  alive,     \* the process runs (no uncaught exception or signal has ended it)
  conn,      \* per connection: the request on it and what the server did
  reqLog,    \* /tmp/mcp-mock-requests.log, a sequence of lines
  respLog,   \* /tmp/mcp-mock-responses.log, a sequence of lines
  served     \* requests accepted so far

vars == <<alive, conn, reqLog, respLog, served>>

ConnIds == {1, 2}

\* Requests accepted in one run.
MaxRequests == 2

\* The length of the shortest chunk sent; a text that is shorter is sent
\* padded with whitespace.
MinChunk == 200

\* Events written on one stream while the model follows it.
MaxEvents == 3

\* The empty text: a request without body, a response without body.
NoText == Invalid("")

\* A connection on which no request has arrived.
FreeConn ==
  [phase |-> "free", hm |-> "", url |-> "", sent |-> NoText, wire |-> <<>>,
   body |-> <<>>, destroyed |-> FALSE, res |-> <<>>, got |-> <<>>,
   logged |-> <<>>, branch |-> "none",
   ended |-> FALSE, events |-> <<>>, timer |-> FALSE, logsOk |-> TRUE]

\* The sum of f over the keys S.
RECURSIVE Sum(_, _)
Sum(f, S) ==
  IF S = {} THEN 0
  ELSE LET x == CHOOSE y \in S : TRUE IN f[x] + Sum(f, S \ {x})

\* The characters of the text d written without whitespace (its strings
\* and keys need no escapes); with whitespace a text is as long as wanted.
RECURSIVE TextLength(_)
TextLength(d) ==
  CASE d.t = "invalid" -> Len(d.s)
    [] d.t = "null" -> 4
    [] d.t = "bool" -> (IF d.b THEN 4 ELSE 5)
    [] d.t = "str" -> Len(d.s) + 2
    [] d.t = "num" ->
         (IF d.sg < 0 THEN 1 ELSE 0) + Len(MantStr(d))
           + (IF d.e = 0 THEN 0 ELSE 1 + Len(Digits(d.e)))
    [] d.t = "arr" ->
         2 + Sum([i \in DOMAIN d.a |-> TextLength(d.a[i])], DOMAIN d.a)
           + (IF Len(d.a) > 1 THEN Len(d.a) - 1 ELSE 0)
    [] d.t = "nest" -> 2 * d.n + TextLength(d.v)
    [] d.t = "obj" ->
         2 + Sum([k \in DOMAIN d.f |-> Len(k) + 3 + TextLength(d.f[k])], DOMAIN d.f)
           + (IF Cardinality(DOMAIN d.f) > 1 THEN Cardinality(DOMAIN d.f) - 1 ELSE 0)

\* The text d cut into Len(lens) chunks, chunk j of lens[j] characters.
Chunks(d, lens) ==
  [j \in 1..Len(lens) |-> [doc |-> d, i |-> j, k |-> Len(lens), len |-> lens[j]]]

\* body.length
RECURSIVE BodyLength(_)
BodyLength(body) ==
  IF body = <<>> THEN 0 ELSE body[1].len + BodyLength(Tail(body))

\* The text the accumulated chunks make up: the text that was sent when they
\* are all its chunks in order, and otherwise no JSON text.
TextOf(body) ==
  IF body = <<>> THEN NoText
  ELSE IF /\ Len(body) = body[1].k
          /\ \A j \in 1..Len(body) : body[j].doc = body[1].doc /\ body[j].i = j
    THEN body[1].doc
  ELSE Invalid("garbled")

\* A listener that looks at the path before the method.
route_PathFirst(hm, url) ==
  IF url = "/health" THEN "health"
  ELSE IF url = "/sse" THEN "sse"
  ELSE IF hm # "POST" THEN "notAllowed"
  ELSE "read"

\* The branch of the request listener that takes the request.
route(hm, url) ==
  IF hm = "GET" /\ url = "/health" THEN "health"
  ELSE IF hm = "GET" /\ url = "/sse" THEN "sse"
  ELSE IF hm # "POST" THEN "notAllowed"
  ELSE "read"

\* event: message, data: {"status":"ok"}
messageEvent ==
  [event |-> "message", data |-> JSONstringify(JObj([status |-> JStr("ok")]), MinStringifyDepth)]

\* event: ping, data: {}
pingEvent == [event |-> "ping", data |-> JSONstringify(JObj(NoFields), MinStringifyDepth)]

\* A stream opened without its setInterval.
sseConnect_NoTimer(st) ==
  [st EXCEPT !.phase = "streaming", !.events = <<messageEvent>>]

\* GET /sse: the head and the message event are written and the interval
\* is created; the response is not ended.
sseConnect(st) ==
  [st EXCEPT !.phase = "streaming", !.events = <<messageEvent>>, !.timer = TRUE]

\* An interval callback that writes the message event again.
sseTick_Message(st) == [st EXCEPT !.events = Append(@, messageEvent)]

\* The interval callback.
sseTick(st) == [st EXCEPT !.events = Append(@, pingEvent)]

\* A 'close' handler that leaves the interval running.
sseClose_NoClear(st) == [st EXCEPT !.phase = "closed"]

\* req.on('close') of a stream: clearInterval(interval).
sseClose(st) == [st EXCEPT !.phase = "closed", !.timer = FALSE]

Init ==
  /\ alive = TRUE
  /\ conn = [c \in ConnIds |-> FreeConn]
  /\ reqLog = <<>>
  /\ respLog = <<>>
  /\ served = 0

\* The request listener: a request (HTTP method hm, path url, body text d
\* sent in chunks of lengths lens, which hold the text and the whitespace
\* around it) arrives on connection c.  Only the
\* POST branch attaches handlers that read the body.
Request(c, hm, url, d, lens) ==
  /\ alive
  /\ conn[c].phase = "free"
  /\ served < MaxRequests
  /\ (lens = <<>>) <=> (d = NoText)
  /\ BodyLength(Chunks(d, lens)) >= TextLength(d)
  /\ served' = served + 1
  /\ LET base == [conn[c] EXCEPT !.hm = hm, !.url = url, !.sent = d,
                                 !.wire = Chunks(d, lens)]
         to == route(hm, url)
         health == <<[status |-> 200,
                      body |-> JSONstringify(JObj([status |-> JStr("ok")]), MinStringifyDepth)]>>
         refused == <<[status |-> 405, body |-> NoText]>>
     IN conn' = [conn EXCEPT ![c] =
          IF to = "health"
            THEN [base EXCEPT !.phase = "done", !.res = health, !.got = health,
                              !.ended = TRUE]
          ELSE IF to = "sse"
            THEN sseConnect(base)
          ELSE IF to = "notAllowed"
            THEN [base EXCEPT !.phase = "done", !.res = refused, !.got = refused,
                              !.ended = TRUE]
          ELSE [base EXCEPT !.phase = "reading"]]
  /\ UNCHANGED <<alive, reqLog, respLog>>

\* req.on('data'): the next chunk is appended to the body; a body longer
\* than MaxBody destroys the socket.  Chunks the parser already holds may
\* still be delivered after the socket is destroyed.
OnData(c) ==
  /\ alive
  /\ conn[c].phase = "reading"
  /\ conn[c].wire # <<>>
  /\ LET body == Append(conn[c].body, Head(conn[c].wire))
     IN conn' = [conn EXCEPT ![c].wire = Tail(@),
                             ![c].body = body,
                             ![c].destroyed = @ \/ BodyLength(body) > MaxBody]
  /\ UNCHANGED <<alive, reqLog, respLog, served>>

\* req.on('end'): the whole body has been delivered.  An 'end' already due
\* when the socket is destroyed is still emitted (the socket's 'close' comes
\* later); what is written to a destroyed socket never reaches the client.
\* An exception the handler does not catch ends the process.  logsOk keeps
\* whether the log files could be appended to when the handler ran; stack:
\* what the stack holds in this run of the handler.
OnEnd(c, reqLogOk, respLogOk, stack) ==
  /\ alive
  /\ conn[c].phase = "reading"
  /\ conn[c].wire = <<>>
  /\ \E r \in {onEnd(TextOf(conn[c].body), reqLogOk, respLogOk, stack)} :
        /\ conn' = [conn EXCEPT ![c].phase = "done",
                                ![c].branch = r.branch,
                                ![c].res = @ \o r.out,
                                ![c].got = IF conn[c].destroyed THEN @ ELSE @ \o r.out,
                                ![c].ended = r.out # <<>>,
                                ![c].logged = @ \o r.reqLine \o r.respLine,
                                ![c].logsOk = reqLogOk /\ respLogOk]
        /\ reqLog' = reqLog \o r.reqLine
        /\ respLog' = respLog \o r.respLine
        /\ alive' = ~r.threw
  /\ UNCHANGED served

\* The 'close' of a destroyed socket: no further event of the request is
\* emitted.
SocketClose(c) ==
  /\ alive
  /\ conn[c].phase = "reading"
  /\ conn[c].destroyed
  /\ conn' = [conn EXCEPT ![c].phase = "aborted"]
  /\ UNCHANGED <<alive, reqLog, respLog, served>>

\* The interval of the stream on c fires (every 15 s while it is not
\* cleared and the process runs).
Tick(c) ==
  /\ alive
  /\ conn[c].timer
  /\ Len(conn[c].events) < MaxEvents
  /\ conn' = [conn EXCEPT ![c] = sseTick(@)]
  /\ UNCHANGED <<alive, reqLog, respLog, served>>

\* The client has closed the stream on c and the request's 'close' event
\* is handled.
OnClose(c) ==
  /\ alive
  /\ conn[c].phase = "streaming"
  /\ conn' = [conn EXCEPT ![c] = sseClose(@)]
  /\ UNCHANGED <<alive, reqLog, respLog, served>>

\* SIGINT or SIGTERM: the handler calls process.exit(0).
Signal(sig) ==
  /\ alive
  /\ sig \in {"SIGINT", "SIGTERM"}
  /\ alive' = FALSE
  /\ UNCHANGED <<conn, reqLog, respLog, served>>

\* A request sent after the process has ended: nobody listens, nothing is
\* answered.
Unserved(c, hm, url, d, lens) ==
  /\ ~alive
  /\ conn[c].phase = "free"
  /\ served < MaxRequests
  /\ (lens = <<>>) <=> (d = NoText)
  /\ BodyLength(Chunks(d, lens)) >= TextLength(d)
  /\ served' = served + 1
  /\ conn' = [conn EXCEPT ![c] =
       [@ EXCEPT !.phase = "unserved", !.hm = hm, !.url = url, !.sent = d,
                 !.wire = Chunks(d, lens)]]
  /\ UNCHANGED <<alive, reqLog, respLog>>

\* The connection is over; its slot takes the next connection.
Release(c) ==
  /\ alive
  /\ conn[c].phase \in {"done", "aborted", "closed"}
  /\ served < MaxRequests
  /\ conn' = [conn EXCEPT ![c] = FreeConn]
  /\ UNCHANGED <<alive, reqLog, respLog, served>>

\* ------------------------------------------------------------ the inputs

\* A JSON-RPC request text.
Req(m, id, p) ==
  JObj(("jsonrpc" :> JStr("2.0")) @@ Field("method", m) @@ Field("id", id)
         @@ Field("params", p))

\* The method names the server accepts, by alias group.
AliasGroups ==
  {{"listTools", "tools/list"}, {"listResources", "resources/list"},
   {"listPrompts", "prompts/list"}, {"tools/call", "callTool"},
   {"initialize", "init", "handshake"},
   {"ping", "serverInfo", "getMetadata", "status"}}

AcceptedNames == UNION AliasGroups

\* Names that are near an accepted one: another case, a prefix, an extension.
OtherNames == {"Ping", "tools/cal", "tools/list2", "unknown-thing", ""}

MethodVals ==
  {JStr(m) : m \in AcceptedNames \cup OtherNames}
    \cup {Absent, JNull, JInt(5), JArr(<<JStr("ping")>>)}

\* 2^53 + 1, which is no double, 1e999 and -1e999, which are beyond the
\* doubles, -0, and 15e2, which is written 1500.
BigNum == JNum(1, 90071992, 54740993, 0)
HugeNum == JNum(1, 0, 1, 999)
NegHugeNum == JNum(-1, 0, 1, 999)
NegZero == JNum(-1, 0, 0, 0)
ExpNum == JNum(1, 0, 15, 2)

\* [[...[]...]], 5000 arrays deep: a text of 10000 characters that
\* JSON.parse reads and neither String nor JSON.stringify can write;
\* 4117 arrays deep, which JSON.stringify writes on some stacks; and "x"
\* in 3200 arrays, which String writes on some stacks.
DeepArr == JNest(4999, JArr(<<>>))
EdgeArr == JNest(4116, JArr(<<>>))
EdgeName == JNest(3200, JStr("x"))

IdVals ==
  {Absent, JNull, JInt(0), JInt(1), JInt(-7), JStr("a"), JStr(""), BigNum, HugeNum,
   JBool(FALSE), DeepArr, EdgeArr}

MessageVals ==
  {Absent, JStr("hi"), JStr(""), JInt(0), JInt(5), JBool(FALSE), JNull, BigNum,
   NegZero, ExpNum, DeepArr}

ArgVals ==
  {Absent, JNull, JStr("x"), JObj(NoFields)}
    \cup {JObj(Field("message", m)) : m \in MessageVals \ {Absent}}

NameVals ==
  {Absent, JNull, JStr("echo"), JStr("nope"), JStr(""), JInt(5),
   JArr(<<JStr("echo")>>), JObj("toString" :> JInt(1)), NegHugeNum,
   DeepArr, EdgeName}

ToolVals ==
  {Absent, JNull, JObj("name" :> JStr("echo")),
   JObj("arguments" :> JObj("message" :> JStr("yo"))),
   JObj(("name" :> JStr("nope")) @@ ("arguments" :> JObj("message" :> JStr("yo"))))}

CallParams ==
  {JObj(Field("name", n) @@ Field("arguments", a) @@ Field("tool", t)) :
     n \in NameVals, a \in ArgVals, t \in ToolVals}
    \cup {Absent, JNull, JStr("echo")}

\* The bodies of the dispatch specification: every method with every id,
\* every tool call, and the texts that are no JSON-RPC request.
Docs ==
  {Req(m, id, p) : m \in MethodVals, id \in IdVals,
                   p \in {Absent, JObj("name" :> JStr("echo"))}}
    \cup {Req(JStr(m), id, p) : m \in {"tools/call", "callTool"},
                                id \in {Absent, JInt(1)}, p \in CallParams}
    \cup {JNull, JBool(TRUE), JInt(5), JStr("ping"), JArr(<<>>),
          JArr(<<Req(JStr("ping"), JInt(1), Absent)>>),
          Invalid("{bad"), NoText}

\* The length at which the body d is sent: its own, or MinChunk when it
\* is shorter.
Padded(d) == IF TextLength(d) < MinChunk THEN MinChunk ELSE TextLength(d)

\* The chunkings of the body d: the text in one chunk, and the text in one
\* chunk followed by a chunk of whitespace.
DispatchLens(d) ==
  IF d = NoText THEN {<<>>} ELSE {<<Padded(d)>>, <<Padded(d), MinChunk>>}

\* The bodies and the chunkings of the server specification.  The chunkings
\* reach MaxBody exactly, pass it with the last chunk, and pass it with a
\* chunk that is not the last.
SmallDocs ==
  {Invalid("{bad"), NoText, JNull,
   Req(JStr("ping"), JInt(1), Absent),
   Req(JStr("tools/list"), JInt(2), Absent),
   Req(JStr("tools/call"), JStr("a"),
       JObj(("name" :> JStr("echo")) @@ ("arguments" :> JObj("message" :> JStr("hi")))))}

Chunkings ==
  {<<>>, <<MinChunk>>, <<MaxBody - MinChunk, MinChunk>>,
   <<MaxBody - MinChunk, MinChunk + 1>>, <<MaxBody + 1, MinChunk>>}

\* The requests of the server specification: every body in every chunking
\* posted to /, a POST to the two GET routes, the two GET routes, and
\* requests that are neither (other methods, other paths, with a body and
\* without).
Ping == Req(JStr("ping"), JInt(1), Absent)

Requests ==
  {[hm |-> "POST", url |-> "/", d |-> d, lens |-> lens] :
     d \in SmallDocs, lens \in Chunkings}
    \cup {[hm |-> "POST", url |-> u, d |-> Ping, lens |-> <<MinChunk>>] :
            u \in {"/health", "/sse"}}
    \cup {[hm |-> "GET", url |-> u, d |-> NoText, lens |-> <<>>] :
            u \in {"/health", "/sse", "/", "/health?x=1"}}
    \cup {[hm |-> "PUT", url |-> "/", d |-> Ping, lens |-> <<MinChunk>>],
          [hm |-> "PUT", url |-> "/health", d |-> NoText, lens |-> <<>>],
          [hm |-> "DELETE", url |-> "/sse", d |-> NoText, lens |-> <<>>]}

\* The requests sent to a process that has ended.
LateRequests ==
  {[hm |-> "GET", url |-> "/health", d |-> NoText, lens |-> <<>>],
   [hm |-> "POST", url |-> "/", d |-> Ping, lens |-> <<MinChunk>>]}

\* ------------------------------------------------------ the specifications

\* The server: requests of every kind on two connections, interleaved.
Next ==
  \E c \in ConnIds :
    \/ /\ conn[c].phase = "free"
       /\ alive
       /\ \E q \in Requests : Request(c, q.hm, q.url, q.d, q.lens)
    \/ OnData(c)
    \/ \E reqLogOk \in BOOLEAN, respLogOk \in BOOLEAN, stack \in Stacks :
         OnEnd(c, reqLogOk, respLogOk, stack)
    \/ SocketClose(c)
    \/ Tick(c)
    \/ OnClose(c)
    \/ /\ conn[c].phase = "free"
       /\ ~alive
       /\ \E q \in LateRequests : Unserved(c, q.hm, q.url, q.d, q.lens)
    \/ Release(c)
    \/ \E sig \in {"SIGINT", "SIGTERM"} : Signal(sig)

Spec == Init /\ [][Next]_vars

\* The streams: GET /sse connections opened, ticking and closed on two
\* connections, among health checks, signals and POST requests, one of
\* which ends the process.
StreamRequests ==
  {[hm |-> "GET", url |-> u, d |-> NoText, lens |-> <<>>] : u \in {"/sse", "/health"}}
    \cup {[hm |-> "POST", url |-> "/", d |-> d, lens |-> <<MinChunk>>] :
            d \in {Ping, JNull}}

NextStream ==
  \E c \in ConnIds :
    \/ /\ conn[c].phase = "free"
       /\ alive
       /\ \E q \in StreamRequests : Request(c, q.hm, q.url, q.d, q.lens)
    \/ OnData(c)
    \/ \E stack \in Stacks : OnEnd(c, TRUE, TRUE, stack)
    \/ Tick(c)
    \/ OnClose(c)
    \/ Release(c)
    \/ \E sig \in {"SIGINT", "SIGTERM"} : Signal(sig)

\* The intervals fire: one that is not cleared fires again while the
\* process runs.
FairSpec ==
  Init /\ [][NextStream]_vars /\ \A c \in ConnIds : WF_vars(Tick(c))

\* The logs: sequences of POST requests on two connections, each handled
\* with the log files appendable or not; the bodies take every way to a
\* response (result, error, parse error, none).
LogDocs ==
  {Ping, JNull, Invalid("{bad"),
   Req(JStr("nope"), JInt(1), Absent),
   Req(JStr("ping"), EdgeArr, Absent),
   Req(JStr("tools/call"), JInt(2),
       JObj(("name" :> JStr("echo")) @@ ("arguments" :> JObj("message" :> JStr("hi"))))),
   Req(JStr("tools/call"), JInt(3), JObj("name" :> JStr("nope")))}

NextLogs ==
  \E c \in ConnIds :
    \/ /\ conn[c].phase = "free"
       /\ alive
       /\ \E d \in LogDocs : Request(c, "POST", "/", d, <<Padded(d)>>)
    \/ OnData(c)
    \/ \E reqLogOk \in BOOLEAN, respLogOk \in BOOLEAN, stack \in Stacks :
         OnEnd(c, reqLogOk, respLogOk, stack)
    \/ /\ conn[c].phase = "free"
       /\ ~alive
       /\ Unserved(c, "POST", "/", Ping, <<MinChunk>>)
    \/ Release(c)

SpecLogs == Init /\ [][NextLogs]_vars

\* The dispatcher: one POST request, its body drawn from Docs.
NextDispatch ==
  \/ /\ conn[1].phase = "free"
     /\ \E d \in Docs : \E lens \in DispatchLens(d) : Request(1, "POST", "/", d, lens)
  \/ OnData(1)
  \/ \E reqLogOk \in BOOLEAN, respLogOk \in BOOLEAN, stack \in Stacks :
       OnEnd(1, reqLogOk, respLogOk, stack)

SpecDispatch == Init /\ [][NextDispatch]_vars

\* ------------------------------------------------------------ the claims

\* The end handler of a POST request on c has run.
Posted(c) == conn[c].hm = "POST" /\ conn[c].phase = "done"

\* An end handler has thrown: the process was ended by a request.
Threw == \E c \in ConnIds : Posted(c) /\ conn[c].res = <<>>

\* res is what the end handler writes for a body on one of the stacks.
Responds(text, res) ==
  \E stack \in Stacks : onEnd(text, TRUE, TRUE, stack).out = res

\* The request d under the method name m.
Renamed(d, m) == JObj([d.f EXCEPT !["method"] = JStr(m)])

Has(v, k) == v.t = "obj" /\ k \in DOMAIN v.f
Sub(v, k) == IF Has(v, k) THEN v.f[k] ELSE Absent

\* The envelopes, written out.
ErrorOf(code, message) == JObj([code |-> JInt(code), message |-> JStr(message)])
IsError(r, status, code, message) ==
  /\ r.status = status
  /\ Has(r.body, "error") /\ ~Has(r.body, "result")
  /\ r.body.f.error = ErrorOf(code, message)
IsResult(r, result) ==
  /\ r.status = 200
  /\ Has(r.body, "result") /\ ~Has(r.body, "error")
  /\ r.body.f.result = result

\* C1: every POST request whose body stays within the size limit and parses
\* as JSON (to any JSON value) gets exactly one response.
C1_ExactlyOneResponse ==
  \A c \in ConnIds :
    (Posted(c) /\ ~conn[c].destroyed /\ ~ParseThrows(conn[c].sent))
      => Len(conn[c].res) = 1 /\ conn[c].got = conn[c].res

\* C2: for a POST request whose body is a JSON object, the id of the
\* response is the id of the request unchanged (a string, a number or null),
\* and null when the request has none.
C2_IdEchoed ==
  \A c \in ConnIds :
    (/\ Posted(c) /\ conn[c].sent.t = "obj"
     /\ Sub(conn[c].sent, "id").t \in {"absent", "null", "str", "num"})
      => \A i \in DOMAIN conn[c].res :
           /\ Has(conn[c].res[i].body, "id")
           /\ conn[c].res[i].body.f.id
                = (IF Has(conn[c].sent, "id") THEN conn[c].sent.f.id ELSE JNull)

\* C3: a POST request whose body is no JSON text gets exactly one response,
\* HTTP 400 with error -32700 "Parse error" and id null; no method handler
\* runs and nothing is logged for it.
C3_ParseError ==
  \A c \in ConnIds :
    (Posted(c) /\ ~conn[c].destroyed /\ ParseThrows(conn[c].sent))
      => /\ conn[c].res
              = <<[status |-> 400,
                   body |-> JObj([jsonrpc |-> JStr("2.0"),
                                  error |-> ErrorOf(-32700, "Parse error"),
                                  id |-> JNull])]>>
         /\ conn[c].got = conn[c].res
         /\ conn[c].branch = "parseError"
         /\ conn[c].logged = <<>>

C3_Witness ==
  \E c \in ConnIds :
    /\ Posted(c) /\ conn[c].sent = Invalid("{bad") /\ Len(conn[c].body) = 1
    /\ conn[c].res # <<>>

\* C4: the socket is destroyed in the data event in which the body first
\* exceeds MaxBody, and then no response, envelope or log line is ever
\* produced for the request; a body that never exceeds MaxBody is never
\* destroyed.
C4_OversizedSilent ==
  \A c \in ConnIds :
    conn[c].hm = "POST" =>
      /\ conn[c].destroyed <=> BodyLength(conn[c].body) > MaxBody
      /\ conn[c].destroyed =>
           conn[c].res = <<>> /\ conn[c].got = <<>> /\ conn[c].logged = <<>>

\* A value that is absent or falsy: null, false, 0 or "".
Falsy(v) ==
  \/ v \in {Absent, JNull, JBool(FALSE), JStr("")}
  \/ v.t = "num" /\ v.hi = 0 /\ v.lo = 0
Pick(a, b) == IF Falsy(a) THEN b ELSE a

\* The request on c is a tools/call or callTool request.
IsCall(c) ==
  /\ Posted(c) /\ conn[c].sent.t = "obj"
  /\ Sub(conn[c].sent, "method") \in {JStr("tools/call"), JStr("callTool")}

\* The name, the arguments and the message of a call as C5 reads them:
\* the fallback is taken only when the first place is absent.
ClaimedName(d) ==
  IF Has(Sub(d, "params"), "name") THEN Sub(d, "params").f.name
  ELSE Sub(Sub(Sub(d, "params"), "tool"), "name")
ClaimedArgs(d) ==
  IF Has(Sub(d, "params"), "arguments") THEN Sub(d, "params").f.arguments
  ELSE IF Has(Sub(Sub(d, "params"), "tool"), "arguments")
    THEN Sub(Sub(d, "params"), "tool").f.arguments
  ELSE JObj(NoFields)
ClaimedMessage(d) ==
  IF Has(ClaimedArgs(d), "message") THEN ClaimedArgs(d).f.message ELSE JStr("")

\* The same as the spec's `or` and the code's `||` read them: the fallback
\* is taken when the first place is absent or falsy.
UsedParams(d) == Pick(Sub(d, "params"), JObj(NoFields))
UsedName(d) == Pick(Sub(UsedParams(d), "name"), Sub(Sub(UsedParams(d), "tool"), "name"))
UsedArgs(d) ==
  Pick(Pick(Sub(UsedParams(d), "arguments"), Sub(Sub(UsedParams(d), "tool"), "arguments")),
       JObj(NoFields))
UsedMessage(d) ==
  IF Falsy(Sub(UsedArgs(d), "message")) THEN JStr("")
  ELSE JSONtext(JSONparse(Sub(UsedArgs(d), "message")))

EchoResult(m) == JObj([type |-> JStr("tool_result"), value |-> JObj([output |-> m])])

\* C5: an echo call gets HTTP 200 with the message as output, or "" in its
\* place; name and arguments fall back to params.tool.  The fallbacks are
\* read as the spec's `arguments.message or ""`: taken when the first
\* place is absent or falsy.
C5_EchoResult ==
  \A c \in ConnIds :
    (IsCall(c) /\ UsedName(conn[c].sent) = JStr("echo"))
      => /\ Len(conn[c].res) = 1
         /\ IsResult(conn[c].res[1], EchoResult(UsedMessage(conn[c].sent)))

\* C6: a call that names a tool other than "echo" gets HTTP 404 with error
\* -32000 "Tool not found: <name>", whatever its arguments.
C6_ToolNotFound ==
  \A c \in ConnIds :
    (/\ IsCall(c)
     /\ ~Falsy(UsedName(conn[c].sent))
     /\ UsedName(conn[c].sent) # JStr("echo"))
      => /\ Len(conn[c].res) = 1
         /\ conn[c].res[1].status = 404
         /\ Has(conn[c].res[1].body, "error") /\ ~Has(conn[c].res[1].body, "result")
         /\ conn[c].res[1].body.f.error.f.code = JInt(-32000)
         /\ UsedName(conn[c].sent).t = "str" =>
              conn[c].res[1].body.f.error.f.message
                = JStr("Tool not found: " \o UsedName(conn[c].sent).s)

\* C7: a call with no name in params.name and none in params.tool.name gets
\* HTTP 400 with error -32602 "Missing tool name", never -32000 and never a
\* tool result.
C7_MissingToolName ==
  \A c \in ConnIds :
    (/\ IsCall(c)
     /\ ~Has(Sub(conn[c].sent, "params"), "name")
     /\ ~Has(Sub(Sub(conn[c].sent, "params"), "tool"), "name"))
      => /\ Len(conn[c].res) = 1
         /\ conn[c].got = conn[c].res
         /\ IsError(conn[c].res[1], 400, -32602, "Missing tool name")

\* C8: a request whose method is not exactly one of the 15 accepted names
\* (or that has none) gets HTTP 404 with error -32601 "Method not found";
\* a request with an accepted name never gets -32601.
C8_MethodNotFound ==
  \A c \in ConnIds :
    (Posted(c) /\ ~ParseThrows(conn[c].sent) /\ conn[c].sent # JNull)
      => IF /\ Sub(conn[c].sent, "method").t = "str"
            /\ Sub(conn[c].sent, "method").s \in AcceptedNames
           THEN \A i \in DOMAIN conn[c].res :
                  ~(/\ Has(conn[c].res[i].body, "error")
                    /\ conn[c].res[i].body.f.error.f.code = JInt(-32601))
           ELSE /\ Len(conn[c].res) = 1
                /\ conn[c].got = conn[c].res
                /\ IsError(conn[c].res[1], 404, -32601, "Method not found")

\* C9: the names of one alias group are interchangeable: the request with
\* another name of the group gets the same status and the same body (on a
\* stack that holds as much).
C9_AliasesInterchangeable ==
  \A c \in ConnIds :
    (/\ Posted(c) /\ conn[c].sent.t = "obj"
     /\ Sub(conn[c].sent, "method").t = "str"
     /\ Sub(conn[c].sent, "method").s \in AcceptedNames)
      => \A g \in AliasGroups :
           conn[c].sent.f.method.s \in g =>
             /\ \A m \in g : Responds(Renamed(conn[c].sent, m), conn[c].res)
             /\ \A stack \in Stacks :
                  Cardinality({onEnd(Renamed(conn[c].sent, m), TRUE, TRUE, stack).out :
                                 m \in g}) = 1

C9_Witness ==
  \E c \in ConnIds :
    /\ Posted(c) /\ Sub(conn[c].sent, "method") = JStr("handshake")
    /\ conn[c].res # <<>> /\ conn[c].res[1].status = 200

\* C10: the response to a POST request is the same whether the appends to
\* the request log and to the response log succeed or fail (on a stack that
\* holds as much), for this request and for those before it: a request is
\* left without response by a handler that throws, its own or an earlier
\* one, and the handler throws with the logs appendable exactly when it
\* throws without.
C10_LogFailuresInvisible ==
  \A c \in ConnIds :
    /\ Posted(c) =>
         /\ \E stack \in Stacks, reqLogOk \in BOOLEAN, respLogOk \in BOOLEAN :
              /\ onEnd(conn[c].sent, reqLogOk, respLogOk, stack).out = conn[c].res
              /\ onEnd(conn[c].sent, reqLogOk, respLogOk, stack).threw
                   = (conn[c].res = <<>>)
         /\ \A stack \in Stacks :
              Cardinality({[out |-> r.out, threw |-> r.threw] :
                             r \in {onEnd(conn[c].sent, reqLogOk, respLogOk, stack) :
                                      reqLogOk \in BOOLEAN, respLogOk \in BOOLEAN}}) = 1
    /\ conn[c].phase = "unserved" => Threw /\ conn[c].got = <<>>

C10_Witness ==
  \E c \in ConnIds, o \in ConnIds :
    /\ Posted(c) /\ conn[c].branch = "callTool"
    /\ conn[c].res # <<>> /\ conn[c].logged = <<>>
    /\ Posted(o) /\ conn[o].branch = "notFound"
    /\ conn[o].res # <<>> /\ Len(conn[o].logged) = 2
    /\ reqLog = <<conn[o].logged[1]>>

\* C11: once the 'close' event of a GET /sse stream has been handled, no
\* further event is written to that stream and its interval is not live:
\* the interval never fires again, whatever ticks and closes of this and of
\* the other streams came before.
C11_NoEventAfterClose ==
  [][\A c \in ConnIds :
       (conn[c].phase = "closed" /\ conn'[c].phase = "closed")
         => conn'[c].events = conn[c].events /\ ~conn'[c].timer]_vars

C11_Witness ==
  \E c \in ConnIds, o \in ConnIds :
    /\ conn[c].phase = "closed" /\ Len(conn[c].events) >= 2
    /\ conn[o].phase = "streaming" /\ Len(conn[o].events) > Len(conn[c].events)

\* What GET /health answers.
HealthResponse ==
  <<[status |-> 200, body |-> JObj([status |-> JStr("ok")])]>>

\* C12: no request ends the process, and after any sequence of requests
\* every GET /health, unless a signal has stopped the process, is answered
\* with 200 and {"status":"ok"}.
C12_AlwaysHealthy ==
  /\ ~Threw
  /\ \A c \in ConnIds :
       (/\ conn[c].hm = "GET" /\ conn[c].url = "/health"
        /\ conn[c].phase = "done" \/ (conn[c].phase = "unserved" /\ Threw))
         => conn[c].got = HealthResponse

\* C13: every response to a POST request carries exactly one of result and
\* error, has status 200 exactly when it carries result, and an error of
\* code -32700 or -32602 has status 400, one of code -32000 or -32601 has
\* status 404.
C13_StatusByEnvelope ==
  \A c \in ConnIds :
    conn[c].hm = "POST" =>
      \A i \in 1..Len(conn[c].res) :
        LET r == conn[c].res[i]
            code == Sub(Sub(r.body, "error"), "code")
        IN /\ Has(r.body, "result") # Has(r.body, "error")
           /\ (r.status = 200) <=> Has(r.body, "result")
           /\ code \in {JInt(-32700), JInt(-32602)} => r.status = 400
           /\ code \in {JInt(-32000), JInt(-32601)} => r.status = 404
           /\ Has(r.body, "error")
                => code \in {JInt(-32700), JInt(-32602), JInt(-32000), JInt(-32601)}

C13_Witness ==
  \E c \in ConnIds :
    /\ Posted(c) /\ Len(conn[c].res) = 1
    /\ conn[c].res[1].status = 404
    /\ Sub(Sub(conn[c].res[1].body, "error"), "code") = JInt(-32601)

\* The connections whose interval is live, and the open streams.
LiveTimers == {c \in ConnIds : conn[c].timer}
OpenStreams == {c \in ConnIds : conn[c].phase = "streaming"}

\* C14: the live intervals are those of the open GET /sse streams, one
\* each, so there are as many of the one as of the other, and none when
\* every stream is closed.
C14_OneTimerPerOpenStream ==
  /\ LiveTimers = OpenStreams
  /\ Cardinality(LiveTimers) = Cardinality(OpenStreams)

C14_Witness ==
  \E c \in ConnIds, o \in ConnIds :
    /\ conn[c].phase = "closed" /\ ~conn[c].timer
    /\ conn[o].phase = "streaming" /\ conn[o].timer
    /\ served = MaxRequests

\* C15: the events of a GET /sse stream are one message event carrying
\* {"status":"ok"} followed by ping events only, the server never ends the
\* response, and while the stream stays open (and fewer than MaxEvents
\* events are written) another ping is eventually written.
C15_MessageThenPings ==
  /\ [](\A c \in ConnIds :
          conn[c].phase \in {"streaming", "closed"}
            => /\ conn[c].events # <<>>
               /\ conn[c].events[1] = messageEvent
               /\ \A i \in 2..Len(conn[c].events) : conn[c].events[i] = pingEvent
               /\ ~conn[c].ended /\ conn[c].res = <<>>)
  /\ \A c \in ConnIds, n \in 1..(MaxEvents - 1) :
       (alive /\ conn[c].phase = "streaming" /\ Len(conn[c].events) = n)
         ~> (~alive \/ conn[c].phase # "streaming" \/ Len(conn[c].events) > n)

C15_Witness ==
  \E c \in ConnIds :
    /\ conn[c].phase = "streaming" /\ Len(conn[c].events) >= 3
    /\ conn[c].events[3] = pingEvent

\* The request line and the response line of the request on c.
OwnLogLines(c) ==
  LET parsed == JSONparse(conn[c].sent)
  IN <<logLine(parsed, Get(parsed, "method"), Nullish(Get(parsed, "id"), JNull),
               MaxStringifyDepth),
       conn[c].res[1].body>>

\* C16: when the log files can be appended to, a POST request within the
\* size limit that parses as JSON and is dispatched appends its request line
\* and then its response line, the body sent, and nothing else; every other
\* request (unparseable, oversized, GET /health, GET /sse, 405) appends
\* nothing.
C16_OneLinePerLog ==
  \A c \in ConnIds :
    (conn[c].phase \notin {"free", "reading", "unserved"} /\ conn[c].logsOk) =>
      IF /\ Posted(c) /\ ~ParseThrows(conn[c].sent)
         /\ BodyLength(conn[c].body) <= MaxBody
         /\ conn[c].branch # "none"
        THEN Len(conn[c].res) = 1 /\ conn[c].logged = OwnLogLines(c)
      ELSE conn[c].logged = <<>>

\* C17: a request that is no POST and neither GET /health nor GET /sse is
\* answered 405 with an empty body, and its body is not read, dispatched or
\* logged; a POST, whatever its path, is read and answered by the end
\* handler from its body.
C17_MethodRouting ==
  \A c \in ConnIds :
    conn[c].phase \notin {"free", "unserved"} =>
      /\ (/\ conn[c].hm # "POST"
          /\ ~(conn[c].hm = "GET" /\ conn[c].url \in {"/health", "/sse"}))
           => /\ conn[c].phase = "done"
              /\ conn[c].res = <<[status |-> 405, body |-> NoText]>>
              /\ conn[c].got = conn[c].res
              /\ conn[c].body = <<>> /\ conn[c].branch = "none"
              /\ conn[c].logged = <<>>
      /\ conn[c].hm = "POST"
           => /\ conn[c].phase \in {"reading", "done", "aborted"}
              /\ conn[c].phase = "done"
                   => /\ conn[c].wire = <<>>
                      /\ Responds(TextOf(conn[c].body), conn[c].res)

C17_Witness ==
  \E c \in ConnIds, o \in ConnIds :
    /\ conn[c].hm = "PUT" /\ conn[c].wire # <<>> /\ conn[c].res # <<>>
    /\ conn[c].res[1].status = 405
    /\ Posted(o) /\ conn[o].url = "/sse" /\ conn[o].branch = "ping"
    /\ conn[o].res # <<>> /\ conn[o].res[1].status = 200

\* res is what a POST with the body sent on c can be answered.
Answer(c, res) ==
  IF BodyLength(conn[c].body \o conn[c].wire) > MaxBody THEN res = <<>>
  ELSE Responds(conn[c].sent, res)

\* C18: what a POST request is answered depends on its body alone, whatever
\* requests came before it (a process stopped by a signal set aside); a
\* tools/list is answered with the tool list holding the echo descriptor.
C18_BodyAlone ==
  \A c \in ConnIds :
    (/\ conn[c].hm = "POST"
     /\ conn[c].phase = "done" \/ (conn[c].phase = "unserved" /\ Threw)) =>
      /\ Answer(c, conn[c].got)
      /\ Sub(conn[c].sent, "method") = JStr("tools/list")
           => /\ Len(conn[c].got) = 1
              /\ IsResult(conn[c].got[1], JObj([tools |-> tools]))

\* C19: of POST requests in flight together, each body is made of the
\* request's own chunks in order, the socket is destroyed exactly when the
\* request's own chunks pass MaxBody, a request that was answered got the
\* answer to its own body with its own id, and no request ends the process
\* that is still reading another.
C19_Independent ==
  \A c \in ConnIds :
    (conn[c].hm = "POST" /\ conn[c].phase \in {"reading", "done", "aborted"}) =>
      /\ \A j \in 1..Len(conn[c].body) :
           conn[c].body[j].doc = conn[c].sent /\ conn[c].body[j].i = j
      /\ conn[c].destroyed <=> BodyLength(conn[c].body) > MaxBody
      /\ (conn[c].phase = "done" /\ ~conn[c].destroyed)
           => /\ Responds(conn[c].sent, conn[c].got)
              /\ \A i \in 1..Len(conn[c].got) :
                   Sub(conn[c].got[i].body, "id")
                     = Nullish(Get(JSONparse(conn[c].sent), "id"), JNull)
      /\ (conn[c].phase = "reading" /\ ~conn[c].destroyed) => ~Threw

====
